---- MODULE Spec2Model ----
(***************************************************************************)
(* Verification model of the govinfo bulk-data ingestion pipeline:         *)
(*   - scripts/ingestion/rate_limiter.py   (RateLimiter)                   *)
(*   - scripts/ingestion/ingestor.py       (GovInfoIngestor)               *)
(*   - scripts/govinfo_bulk_downloader.py  (GovInfoBulkDownloader)         *)
(* Each component has its own specification over the shared variable list. *)
(***************************************************************************)
EXTENDS Integers, Sequences, FiniteSets, TLC

\* ------------------------------------------------------------------------
\* Bounds of the model
\* ------------------------------------------------------------------------
\* RateLimiter(rate, capacity): constructor arguments, tokens per second
Rate == 1
Capacity == 2
\* clock resolution: ticks of time.monotonic() per second
TicksPerSecond == 2
\* last clock value explored
MaxTime == 4

Tasks == {"t1", "t2", "t3"}
None == "none"

Min(a, b) == IF a <= b THEN a ELSE b

VARIABLES
    \* ---- RateLimiter ----
    now,          \* time.monotonic(), in ticks
    tokens,       \* self.tokens, in units of 1/TicksPerSecond token
    updated_at,   \* self.updated_at, in ticks
    lock,         \* holder of self._lock, or None
    waiters,      \* self._waiters: deque of futures [owner, cancelled]
    pc,           \* position of each task inside acquire()/release()
    req,          \* the argument `tokens` of each task's acquire call
    behind,       \* history: tasks that were already waiting when the task called acquire
    excess,       \* history: most tokens granted in a window ending now, less rate x its length
    \* ---- GovInfoIngestor.get_document_list ----
    srv,          \* the remote listing endpoints (fixed input of a run)
    stack,        \* call stack of list_dir: frames [dir, stage, idx, files]
    result,       \* value returned by get_document_list, NotYet before
    reqLog,       \* listing requests issued so far: <<endpoint, dir>>
    contrib,      \* history: value returned by list_dir for each directory
    \* ---- GovInfoIngestor.process_document_type / download_file ----
    cfg,          \* constructor arguments and the pair: [validate_xml, mapped]
    phase,        \* position of process_document_type
    documents,    \* the list returned by get_document_list
    dpc,          \* position of each download_file coroutine
    attempt,      \* loop variable `attempt` of each download_file
    ret,          \* value returned by each download_file
    verdict,      \* history: what validate_downloaded_file answered in each call
    sem,          \* free slots of self.semaphore
    disk,         \* content of the files under output_dir/<congress>/<doc_type>/
    count,        \* value returned by process_document_type
    fetched,      \* history: file GET requests issued by each download_file
    \* ---- GovInfoIngestor.run / process_congress ----
    pairIdx,      \* position of the loops over (congress, doc_type)
    counts,       \* the counts stored in `results` so far, in loop order
    calls,        \* process_document_type calls made for the current pair
    \* ---- GovInfoBulkDownloader ----
    runs,             \* download_collection calls started so far
    bdPhase,          \* position of download_collection (main thread)
    downloaded_files, \* self.downloaded_files
    failed_urls,      \* self.failed_urls
    db,               \* table `downloads`, one row per url: [status, checksum]
    everCompleted,    \* history: urls that were recorded with status COMPLETED
    wpc,              \* position of the worker thread running _download_file(url)
    wattempt,         \* loop variable `attempt` of each worker
    wres,             \* the DownloadResult of each worker: [status, error, checksum]
    gets,             \* GET requests issued for each url during the current call
    bdDisk,           \* content of the file at _get_local_path(url)
    total_bytes,      \* self.total_bytes
    wacc,             \* the value of self.total_bytes a worker loaded for its `+=`
    stats,            \* successful_downloads, failed_downloads, skipped_files
    last,             \* history: the last answer each worker got: [wildcard, status]
    \* ---- GovInfoBulkDownloader._crawl_collection_recursive ----
    crMax,            \* the argument max_depth
    crStack,          \* call stack: frames [depth, stage, idx, entries, file_urls]
    crOut,            \* value returned by the outermost call, NotYet before
    crReqs,           \* history: the directories <<depth, leaf, url>> a listing was requested for
    crLinksOut,       \* the remote listings hold folder links that lead out of the start url
    crFailed,         \* history: some listing request did not yield a listing
    \* ---- run_comprehensive_ingestion.main ----
    orRun,            \* number of the current invocation of main()
    orPc,             \* position of main()
    orIdx,            \* position of the nested loop over the combinations
    orResults,        \* the dict `results`
    orFile,           \* content of ingestion_results.json
    orOutcome,        \* what run_ingestion_command returned for the current pair
    orCmds,           \* history: pairs a command was run for in this invocation
    orFile0,          \* history: content of the results file when main() started
    \* ---- GovInfo118thCongressDownloader.download_118th_congress ----
    cgRuns,           \* download_118th_congress calls started so far
    cgPhase,          \* position of download_118th_congress (main thread)
    cgTotal,          \* self.total_files
    cgPc,             \* position of the worker thread running _download_file(url)
    cgAttempt,        \* loop variable `attempt` of each worker
    cgStatus,         \* result['status'] of each worker
    cgFile,           \* content of the file each worker writes
    cgChecksums,      \* self.file_checksums
    cgDownloaded,     \* self.downloaded_files
    cgStats,          \* successful_downloads, failed_downloads, skipped_files
    cgAcc             \* the value of self.skipped_files the main thread loaded for its `+=`

rlVars == <<now, tokens, updated_at, lock, waiters, pc, req, behind, excess>>
lsVars == <<srv, stack, result, reqLog, contrib>>
dlVars == <<cfg, phase, documents, dpc, attempt, ret, verdict, sem, disk, count, fetched>>

bdVars == <<runs, bdPhase, downloaded_files, failed_urls, db, everCompleted,
            wpc, wattempt, wres, gets, bdDisk, total_bytes, wacc, stats, last>>

crVars == <<crMax, crStack, crOut, crReqs, crFailed, crLinksOut>>

runVars == <<pairIdx, counts, calls>>
orVars == <<orRun, orPc, orIdx, orResults, orFile, orOutcome, orCmds, orFile0>>

cgVars == <<cgRuns, cgPhase, cgTotal, cgPc, cgAttempt, cgStatus, cgFile, cgChecksums,
            cgDownloaded, cgStats, cgAcc>>

vars == <<rlVars, lsVars, dlVars, bdVars, crVars, orVars, runVars, cgVars>>

\* what the actions of one component leave alone
nonRL == <<lsVars, dlVars, bdVars, crVars, orVars, runVars, cgVars>>
nonLS == <<rlVars, dlVars, bdVars, crVars, orVars, runVars, cgVars>>
nonDL == <<now, tokens, updated_at, lock, waiters, req, behind, excess, srv, stack, reqLog, contrib,
           bdVars, crVars, orVars, runVars, cgVars>>
nonBD == <<rlVars, lsVars, dlVars, crVars, orVars, runVars, cgVars>>
nonCR == <<rlVars, lsVars, dlVars, bdVars, orVars, runVars, cgVars>>
nonOR == <<rlVars, lsVars, dlVars, bdVars, crVars, runVars, cgVars>>
nonRun == <<rlVars, bdVars, crVars, orVars, cgVars>>
nonCG == <<rlVars, lsVars, dlVars, bdVars, crVars, orVars, runVars>>

\* ------------------------------------------------------------------------
\* RateLimiter
\* ------------------------------------------------------------------------
Scaled(n) == n * TicksPerSecond

\* tasks suspended in acquire (between the first failed check and the grant)
InAcquireWait(t) == pc[t] \in {"await", "woken"}

RLStart ==
    /\ now = 0
    /\ tokens = Scaled(Capacity)
    /\ updated_at = 0
    /\ lock = None
    /\ waiters = <<>>
    /\ pc = [t \in Tasks |-> "idle"]
    /\ req = [t \in Tasks |-> 1]
    /\ behind = [t \in Tasks |-> {}]
    /\ excess = 0

\* time passes
Tick ==
    /\ now < MaxTime
    /\ now' = now + 1
    /\ excess' = IF excess > Rate THEN excess - Rate ELSE 0
    /\ UNCHANGED <<tokens, updated_at, lock, waiters, pc, req, behind, nonRL>>

\* a task calls acquire(n)
AcquireCall(t, n) ==
    /\ pc[t] = "idle"
    /\ pc' = [pc EXCEPT ![t] = "want"]
    /\ req' = [req EXCEPT ![t] = n]
    /\ behind' = [behind EXCEPT ![t] = {u \in Tasks \ {t} : InAcquireWait(u)}]
    /\ UNCHANGED <<excess, now, tokens, updated_at, lock, waiters, nonRL>>

\* `async with self._lock:` at the top of the loop
AcquireLock(t) ==
    /\ pc[t] \in {"want", "woken"}
    /\ lock = None
    /\ lock' = t
    /\ pc' = [pc EXCEPT ![t] = "refill"]
    /\ UNCHANGED <<excess, now, tokens, updated_at, waiters, req, behind, nonRL>>

\* (variant of the refill that forgets the cap)
RefilledNoCap(tok, upd, t_now) ==
    IF tok < Scaled(Capacity) THEN tok + (t_now - upd) * Rate ELSE tok

\* the refill: only when the bucket is not full
Refilled(tok, upd, t_now) ==
    IF tok < Scaled(Capacity)
    THEN Min(Scaled(Capacity), tok + (t_now - upd) * Rate)
    ELSE tok

AcquireRefill(t) ==
    /\ pc[t] = "refill"
    /\ tokens' = Refilled(tokens, updated_at, now)
    /\ updated_at' = IF tokens < Scaled(Capacity) THEN now ELSE updated_at
    /\ pc' = [pc EXCEPT ![t] = "check"]
    /\ UNCHANGED <<excess, now, lock, waiters, req, behind, nonRL>>

\* `if self.tokens >= tokens:` debit and return, else enqueue a future;
\* leaving the `async with` block releases the lock
AcquireCheck(t) ==
    /\ pc[t] = "check"
    /\ IF tokens >= Scaled(req[t])
       THEN /\ tokens' = tokens - Scaled(req[t])
            /\ pc' = [pc EXCEPT ![t] = "granted"]
            /\ behind' = [u \in Tasks |-> behind[u] \ {t}]
            /\ excess' = excess + Scaled(req[t])
            /\ UNCHANGED waiters
       ELSE /\ waiters' = Append(waiters, [owner |-> t, cancelled |-> FALSE])
            /\ pc' = [pc EXCEPT ![t] = "await"]
            /\ UNCHANGED <<tokens, behind, excess>>
    /\ lock' = None
    /\ UNCHANGED <<now, updated_at, req, nonRL>>

\* acquire has returned to its caller
AcquireReturn(t) ==
    /\ pc[t] = "granted"
    /\ pc' = [pc EXCEPT ![t] = "idle"]
    /\ req' = [req EXCEPT ![t] = 1]
    /\ behind' = [behind EXCEPT ![t] = {}]
    /\ UNCHANGED <<excess, now, tokens, updated_at, lock, waiters, nonRL>>

\* release(): `async with self._lock:`
ReleaseLock(t) ==
    /\ pc[t] = "idle"
    /\ lock = None
    /\ lock' = t
    /\ pc' = [pc EXCEPT ![t] = "release"]
    /\ UNCHANGED <<excess, now, tokens, updated_at, waiters, req, behind, nonRL>>

\* release(): pop the oldest future and resolve it; set_result on a future
\* that was cancelled raises InvalidStateError after the popleft
ReleaseBody(t) ==
    /\ pc[t] = "release"
    /\ IF waiters # <<>>
       THEN /\ waiters' = Tail(waiters)
            /\ pc' = IF Head(waiters).cancelled
                     THEN [pc EXCEPT ![t] = "raised"]
                     ELSE [pc EXCEPT ![t] = "idle", ![Head(waiters).owner] = "woken"]
       ELSE /\ pc' = [pc EXCEPT ![t] = "idle"]
            /\ UNCHANGED waiters
    /\ lock' = None
    /\ UNCHANGED <<excess, now, tokens, updated_at, req, behind, nonRL>>

\* the InvalidStateError leaves release() and reaches its caller
ReleaseRaised(t) ==
    /\ pc[t] = "raised"
    /\ pc' = [pc EXCEPT ![t] = "idle"]
    /\ UNCHANGED <<excess, now, tokens, updated_at, lock, waiters, req, behind, nonRL>>

\* cancelled futures that the deque holds at most
MaxCancelled == 1

\* futures of the deque that are pending, oldest first
LiveWaiters == SelectSeq(waiters, LAMBDA f : ~f.cancelled)

\* the task is cancelled while suspended in `await fut`: the handler cancels
\* the future and re-raises; the future stays in self._waiters
Cancel(t) ==
    /\ pc[t] = "await"
    /\ Len(waiters) - Len(LiveWaiters) < MaxCancelled
    /\ waiters' = [i \in DOMAIN waiters |->
                      IF waiters[i].owner = t THEN [waiters[i] EXCEPT !.cancelled = TRUE]
                      ELSE waiters[i]]
    /\ pc' = [pc EXCEPT ![t] = "idle"]
    /\ req' = [req EXCEPT ![t] = 1]
    /\ behind' = [u \in Tasks |-> IF u = t THEN {} ELSE behind[u] \ {t}]
    /\ UNCHANGED <<excess, now, tokens, updated_at, lock, nonRL>>

\* ------------------------------------------------------------------------
\* GovInfoIngestor.get_document_list / list_dir
\* ------------------------------------------------------------------------
\* longest XML listing body drawn for a directory
MaxEntries == 2
\* nested list_dir calls at which the interpreter raises RecursionError
\* (sys.getrecursionlimit(), scaled down)
RecursionLimit == 3

Root == "D0"
Sub == "D1"
Dirs == {Root, Sub}
\* a value not returned yet, and a returned list of files
NotYet == [done |-> FALSE, files |-> <<>>]
Returned(files) == [done |-> TRUE, files |-> files]
\* status standing for a request that raises (aiohttp.ClientError, timeout)
Raises == 0

\* a link to a file: the directory it lies in, its name and its extension
Link(d, n, e) == [dir |-> d, name |-> n, ext |-> e]

\* str.lower() on the extension of a link
Lower(e) == IF e = "XML" THEN "xml" ELSE e

\* link.lower().endswith(".xml")
IsXml(l) == Lower(l.ext) = "xml"

\* <file> elements of an XML listing:
\*   file      <link> and <folder>false</folder> (or no <folder>)
\*   folder    <link> and <folder>true</folder>, the link names a directory
\*   nolink    no <link> text
\*   badfolder <folder/> without text: is_folder_el.text.lower() raises
XmlFile(l) == [k |-> "file", link |-> l]
XmlFolder(d) == [k |-> "folder", target |-> d]
XmlNoLink == [k |-> "nolink"]
XmlBadFolder == [k |-> "badfolder"]

\* a folder link may name the directory that holds it or one above it
RootEntries ==
    { XmlFile(Link(Root, "a", "xml")), XmlFile(Link(Root, "b", "XML")),
      XmlFile(Link(Root, "c", "pdf")), XmlFolder(Sub), XmlFolder(Root), XmlNoLink,
      XmlBadFolder }
SubEntries ==
    { XmlFile(Link(Sub, "n", "xml")), XmlFolder(Root), XmlBadFolder }

SeqsUpTo(S, n) == UNION { [1..m -> S] : m \in 0..n }

\* answers of the XML listing endpoint /bulkdata/xml/...: the request raises,
\* or has a status and (for 200) a body that parses or not
XmlAnswers(E) ==
    { [status |-> st, wellformed |-> FALSE, body |-> <<>>] : st \in {Raises, 404, 500, 200} }
    \cup { [status |-> 200, wellformed |-> TRUE, body |-> b] : b \in SeqsUpTo(E, MaxEntries) }

\* JSON nodes: a file object {"link": l, "folder": false}, a folder object
\* {"link": ..., "folder": true, "files": [...]}, any other object or list
JsonFile(l) == [k |-> "file", link |-> l]
JsonFolder(fs) == [k |-> "folder", files |-> fs]
JsonOther(fs) == [k |-> "other", files |-> fs]

JsonPayloads(d) ==
    { JsonOther(<<JsonFile(Link(d, "a", "xml")), JsonFolder(<<>>),
                  JsonFile(Link(d, "j", "xml"))>>),
      JsonOther(<<JsonFile(Link(d, "j", "xml")),
                  JsonFolder(<<JsonFile(Link(Sub, "n", "xml"))>>)>>),
      JsonOther(<<JsonFile(Link(d, "c", "pdf"))>>) }

NoData == JsonOther(<<>>)

JsonAnswers(d) ==
    { [status |-> st, valid |-> FALSE, data |-> NoData] : st \in {Raises, 404, 200} }
    \cup { [status |-> 200, valid |-> TRUE, data |-> p] : p \in JsonPayloads(d) }

\* the servers whose listings of the root and of the subdirectory are made
\* of the entries R and S
Servers(R, S) ==
    { [xml |-> [d \in Dirs |-> IF d = Root THEN xr ELSE xs],
       json |-> [d \in Dirs |-> IF d = Root THEN jr ELSE js]] :
        xr \in XmlAnswers(R), xs \in XmlAnswers(S),
        jr \in JsonAnswers(Root), js \in JsonAnswers(Sub) }

\* walk(node) of the JSON fallback
RECURSIVE Walk(_)
WalkAll(nodes) ==
    LET RECURSIVE Cat(_)
        Cat(i) == IF i > Len(nodes) THEN <<>> ELSE Walk(nodes[i]) \o Cat(i + 1)
    IN Cat(1)
Walk(node) ==
    IF node.k = "file"
    THEN IF IsXml(node.link) THEN <<node.link>> ELSE <<>>
    ELSE WalkAll(node.files)

Frame(d) == [dir |-> d, stage |-> "xml_get", idx |-> 1, files |-> <<>>]
Top == stack[Len(stack)]
SetTop(f) == [stack EXCEPT ![Len(stack)] = f]

LSIdle(server) ==
    /\ srv = server
    /\ stack = <<>>
    /\ result = NotYet
    /\ reqLog = {}
    /\ contrib = [d \in Dirs |-> NotYet]

\* get_document_list: `return await list_dir(base)`
GetDocumentList ==
    /\ stack = <<>>
    /\ result = NotYet
    /\ stack' = <<Frame(Root)>>
    /\ UNCHANGED <<srv, result, reqLog, contrib, nonLS>>

\* `return files` of the top frame: the caller extends its own list
ListReturn(files) ==
    /\ contrib' = [contrib EXCEPT ![Top.dir] = Returned(files)]
    /\ IF Len(stack) = 1
       THEN /\ stack' = <<>>
            /\ result' = Returned(files)
       ELSE /\ stack' =
                [SubSeq(stack, 1, Len(stack) - 1) EXCEPT ![Len(stack) - 1] =
                    [@ EXCEPT !.files = @ \o files, !.idx = @ + 1]]
            /\ UNCHANGED result

\* the request to the XML listing endpoint and ET.fromstring
ListXmlGet ==
    /\ stack # <<>>
    /\ Top.stage = "xml_get"
    /\ reqLog' = reqLog \cup {<<"xml", Top.dir>>}
    /\ LET a == srv.xml[Top.dir] IN
       IF a.status # 200
       THEN ListReturn(Top.files)
       ELSE /\ stack' = SetTop([Top EXCEPT !.stage =
                                   IF a.wellformed THEN "iter" ELSE "json_get"])
            /\ UNCHANGED <<result, contrib>>
    /\ UNCHANGED <<srv, nonLS>>

\* one turn of `for f in root.findall(".//file")`; `depth` is passed on
\* but never tested, so a folder is entered at any depth until the
\* interpreter refuses the call, which the `except Exception` catches
ListIterEntry ==
    /\ stack # <<>>
    /\ Top.stage = "iter"
    /\ LET body == srv.xml[Top.dir].body IN
       IF Top.idx > Len(body)
       THEN ListReturn(Top.files)
       ELSE LET e == body[Top.idx] IN
            /\ stack' =
                 IF e.k = "badfolder" THEN SetTop([Top EXCEPT !.stage = "json_get"])
                 ELSE IF e.k = "nolink" THEN SetTop([Top EXCEPT !.idx = @ + 1])
                 ELSE IF e.k = "folder"
                      THEN IF Len(stack) < RecursionLimit
                           THEN Append(stack, Frame(e.target))
                           ELSE SetTop([Top EXCEPT !.stage = "json_get"])
                 ELSE IF IsXml(e.link)
                      THEN SetTop([Top EXCEPT !.files = Append(@, e.link), !.idx = @ + 1])
                      ELSE SetTop([Top EXCEPT !.idx = @ + 1])
            /\ UNCHANGED <<result, contrib>>
    /\ UNCHANGED <<srv, reqLog, nonLS>>

\* the JSON fallback of the `except Exception` around the XML parsing
ListJsonGet ==
    /\ stack # <<>>
    /\ Top.stage = "json_get"
    /\ reqLog' = reqLog \cup {<<"json", Top.dir>>}
    /\ LET a == srv.json[Top.dir] IN
       IF a.status = 200 /\ a.valid
       THEN ListReturn(Top.files \o Walk(a.data))
       ELSE ListReturn(Top.files)
    /\ UNCHANGED <<srv, nonLS>>

\* ------------------------------------------------------------------------
\* GovInfoIngestor.process_document_type / download_file
\* ------------------------------------------------------------------------
\* constructor arguments `workers` and `max_retries`
Workers == 2
MaxRetries == 1

TaskSeq == <<"t1", "t2", "t3">>
\* the coroutine created for documents[i]
TaskAt(i) == TaskSeq[i]
IndexOf(t) == CHOOSE i \in DOMAIN TaskSeq : TaskSeq[i] = t
Active(t) == IndexOf(t) <= Len(documents)
UrlOf(t) == documents[IndexOf(t)]

\* filename = doc_url.rstrip("/").split("/")[-1];
\* output_path = output_dir / str(congress) / doc_type / filename
OutputPath(l) == <<l.name, l.ext>>

AllLinks ==
    { Link(d, n, e) : d \in Dirs, n \in {"a", "b", "c", "j", "n"}, e \in {"xml", "XML", "pdf"} }
ManifestPath == <<"manifest", "json">>
FailuresPath == <<"failures", "json">>
Paths == {OutputPath(l) : l \in AllLinks} \cup {ManifestPath, FailuresPath}

Absent == "absent"
\* a file opened with "wb" whose body was not written
Partial == "partial"

\* validate_downloaded_file on the current content of the file
ValidateDownloadedFile(content) == content = "valid"

DLIdle(c) ==
    /\ cfg = c
    /\ phase = "listing"
    /\ documents = <<>>
    /\ dpc = [t \in Tasks |-> "none"]
    /\ attempt = [t \in Tasks |-> 0]
    /\ ret = [t \in Tasks |-> FALSE]
    /\ verdict = [t \in Tasks |-> "none"]
    /\ sem = Workers
    /\ disk = [p \in Paths |-> Absent]
    /\ count = -1
    /\ fetched = [t \in Tasks |-> 0]

Configs == [validate_xml : BOOLEAN, mapped : BOOLEAN]

\* `documents = await self.get_document_list(...)`, the early return and the
\* creation of one download_file coroutine per element
PdtLaunch ==
    /\ phase = "listing"
    /\ result.done
    /\ documents' = result.files
    /\ IF result.files = <<>>
       THEN /\ phase' = "done"
            /\ count' = 0
            /\ UNCHANGED dpc
       ELSE /\ phase' = "downloading"
            /\ dpc' = [t \in Tasks |-> IF IndexOf(t) <= Len(result.files) THEN "start" ELSE "none"]
            /\ UNCHANGED count
    /\ UNCHANGED <<cfg, attempt, ret, verdict, sem, disk, result, pc, fetched, nonDL>>

\* `if output_path.exists(): return True`
DlExists(t) ==
    /\ dpc[t] = "start"
    /\ IF disk[OutputPath(UrlOf(t))] # Absent
       THEN /\ dpc' = [dpc EXCEPT ![t] = "returned"]
            /\ ret' = [ret EXCEPT ![t] = TRUE]
       ELSE /\ dpc' = [dpc EXCEPT ![t] = "sem"]
            /\ UNCHANGED ret
    /\ UNCHANGED <<cfg, phase, documents, attempt, verdict, sem, disk, count, result, pc, fetched, nonDL>>

\* (variant that enters without taking a slot of the semaphore)
DlEnterNoSlot(t) ==
    /\ dpc[t] = "sem"
    /\ dpc' = [dpc EXCEPT ![t] = "acquire"]
    /\ attempt' = [attempt EXCEPT ![t] = 0]
    /\ UNCHANGED <<cfg, phase, documents, ret, verdict, sem, disk, count, result, pc, fetched, nonDL>>

\* `async with self.semaphore:` and the first turn of the attempt loop
DlEnter(t) ==
    /\ dpc[t] = "sem"
    /\ sem > 0
    /\ sem' = sem - 1
    /\ dpc' = [dpc EXCEPT ![t] = "acquire"]
    /\ attempt' = [attempt EXCEPT ![t] = 0]
    /\ UNCHANGED <<cfg, phase, documents, ret, verdict, disk, count, result, pc, fetched, nonDL>>

\* `await self.rate_limiter.acquire()`
DlAcquire(t) ==
    /\ dpc[t] = "acquire"
    /\ AcquireCall(t, 1)

\* leaving download_file from inside the semaphore block with value v
DlReturn(t, v) ==
    /\ dpc' = [dpc EXCEPT ![t] = "returned"]
    /\ ret' = [ret EXCEPT ![t] = v]
    /\ sem' = sem + 1
    /\ UNCHANGED attempt

\* the end of a failed turn of `for attempt in range(retries + 1)`:
\* after an aiohttp.ClientError / TimeoutError the handler sleeps before the
\* next turn, after a bad status the loop goes on at once
DlFailedTurn(t, slept) ==
    IF attempt[t] < MaxRetries
    THEN /\ dpc' = [dpc EXCEPT ![t] = IF slept THEN "sleep" ELSE "acquire"]
         /\ attempt' = [attempt EXCEPT ![t] = IF slept THEN @ ELSE @ + 1]
         /\ UNCHANGED <<ret, sem>>
    ELSE DlReturn(t, FALSE)

\* `async with session.get(url, timeout=self.timeout) as response:`
DlGet(t, status) ==
    /\ dpc[t] = "acquire"
    /\ pc[t] = "granted"
    /\ pc' = [pc EXCEPT ![t] = "idle"]
    /\ fetched' = [fetched EXCEPT ![t] = @ + 1]
    /\ IF status = 200
       THEN /\ dpc' = [dpc EXCEPT ![t] = "open"]
            /\ UNCHANGED <<attempt, ret, sem>>
       ELSE IF status = 404
       THEN DlReturn(t, FALSE)
       ELSE DlFailedTurn(t, status = Raises)
    /\ UNCHANGED <<cfg, phase, documents, verdict, disk, count, result, nonDL>>

\* `async with aiofiles.open(output_path, "wb") as f:`
DlOpen(t) ==
    /\ dpc[t] = "open"
    /\ disk' = [disk EXCEPT ![OutputPath(UrlOf(t))] = Partial]
    /\ dpc' = [dpc EXCEPT ![t] = "write"]
    /\ UNCHANGED <<cfg, phase, documents, attempt, ret, verdict, sem, count, result, pc, fetched, nonDL>>

\* `await f.write(await response.read())`: the body arrives and is written,
\* or reading it raises (connection reset, timeout)
DlWrite(t, body) ==
    /\ dpc[t] = "write"
    /\ IF body = "raises"
       THEN /\ DlFailedTurn(t, TRUE)
            /\ UNCHANGED disk
       ELSE \* a file unlinked since it was opened stays absent from the directory
            /\ disk' = IF disk[OutputPath(UrlOf(t))] = Absent THEN disk
                        ELSE [disk EXCEPT ![OutputPath(UrlOf(t))] = body]
            /\ dpc' = [dpc EXCEPT ![t] = "validate"]
            /\ UNCHANGED <<attempt, ret, sem>>
    /\ UNCHANGED <<cfg, phase, documents, verdict, count, result, pc, fetched, nonDL>>

\* (variant that reports the failure but leaves the rejected file in place)
DlValidateKeepsFile(t) ==
    /\ dpc[t] = "validate"
    /\ LET p == OutputPath(UrlOf(t))
           ok == ValidateDownloadedFile(disk[p])
       IN IF cfg.validate_xml /\ cfg.mapped
          THEN /\ verdict' = [verdict EXCEPT ![t] = IF ok THEN "valid" ELSE "invalid"]
               /\ DlReturn(t, ok)
               /\ UNCHANGED disk
          ELSE /\ DlReturn(t, TRUE)
               /\ UNCHANGED <<verdict, disk>>
    /\ UNCHANGED <<cfg, phase, documents, count, result, pc, fetched, nonDL>>

\* the validation of the written file, `output_path.unlink()` and the return
DlValidate(t) ==
    /\ dpc[t] = "validate"
    /\ LET p == OutputPath(UrlOf(t))
           ok == ValidateDownloadedFile(disk[p])
       IN IF cfg.validate_xml /\ cfg.mapped
          THEN /\ verdict' = [verdict EXCEPT ![t] = IF ok THEN "valid" ELSE "invalid"]
               /\ disk' = IF ok THEN disk ELSE [disk EXCEPT ![p] = Absent]
               /\ DlReturn(t, ok)
          ELSE /\ DlReturn(t, TRUE)
               /\ UNCHANGED <<verdict, disk>>
    /\ UNCHANGED <<cfg, phase, documents, count, result, pc, fetched, nonDL>>

\* `await asyncio.sleep(RETRY_DELAY * (attempt + 1))` is over: `continue`
DlSleepDone(t) ==
    /\ dpc[t] = "sleep"
    /\ dpc' = [dpc EXCEPT ![t] = "acquire"]
    /\ attempt' = [attempt EXCEPT ![t] = @ + 1]
    /\ UNCHANGED <<cfg, phase, documents, ret, verdict, sem, disk, count, result, pc, fetched, nonDL>>

\* every coroutine was awaited: success_count and the return
PdtFinish ==
    /\ phase = "downloading"
    /\ \A t \in Tasks : Active(t) => dpc[t] = "returned"
    /\ count' = Cardinality({t \in Tasks : Active(t) /\ ret[t]})
    /\ phase' = "done"
    /\ UNCHANGED <<cfg, documents, dpc, attempt, ret, verdict, sem, disk, result, pc, fetched, nonDL>>

\* ------------------------------------------------------------------------
\* GovInfoIngestor.run / process_congress
\* ------------------------------------------------------------------------
\* number of (congress, doc_type) pairs of a run
NumRunPairs == 2

RunIdle ==
    /\ pairIdx = 1
    /\ counts = <<>>
    /\ calls = 1

\* `results[doc_type] = count` and the start of process_document_type for
\* the next pair, whose listing the server answers as `server` and whose
\* directory output_dir/<congress>/<doc_type> holds no file yet
RunNextPair(server) ==
    /\ phase = "done"
    /\ pairIdx < NumRunPairs
    /\ counts' = Append(counts, count)
    /\ pairIdx' = pairIdx + 1
    /\ srv' = server
    /\ stack' = <<>>
    /\ result' = NotYet
    /\ reqLog' = {}
    /\ contrib' = [d \in Dirs |-> NotYet]
    /\ phase' = "listing"
    /\ documents' = <<>>
    /\ dpc' = [t \in Tasks |-> "none"]
    /\ attempt' = [t \in Tasks |-> 0]
    /\ ret' = [t \in Tasks |-> FALSE]
    /\ verdict' = [t \in Tasks |-> "none"]
    /\ disk' = [p \in Paths |-> Absent]
    /\ count' = -1
    /\ fetched' = [t \in Tasks |-> 0]
    /\ UNCHANGED <<cfg, sem, calls, nonRun>>

\* the count of the last pair is stored and run returns `results`
RunReturn ==
    /\ phase = "done"
    /\ pairIdx = NumRunPairs
    /\ counts' = Append(counts, count)
    /\ phase' = "returned"
    /\ UNCHANGED <<pairIdx, calls, lsVars, cfg, documents, dpc, attempt, ret, verdict, sem,
                   disk, count, fetched, nonRun>>

\* invocations of the ingestion for one pair that are followed
MaxPdtCalls == 2

\* a later invocation processes the same pair again: the listing and the
\* downloads start afresh over the files the earlier invocation left
PdtAgain ==
    /\ phase = "done"
    /\ calls < MaxPdtCalls
    /\ calls' = calls + 1
    /\ stack' = <<>>
    /\ result' = NotYet
    /\ reqLog' = {}
    /\ contrib' = [d \in Dirs |-> NotYet]
    /\ phase' = "listing"
    /\ documents' = <<>>
    /\ dpc' = [t \in Tasks |-> "none"]
    /\ attempt' = [t \in Tasks |-> 0]
    /\ ret' = [t \in Tasks |-> FALSE]
    /\ verdict' = [t \in Tasks |-> "none"]
    /\ count' = -1
    /\ fetched' = [t \in Tasks |-> 0]
    /\ UNCHANGED <<srv, cfg, sem, disk, pairIdx, counts, nonRun>>

\* ------------------------------------------------------------------------
\* GovInfoBulkDownloader.download_collection / _download_file
\* ------------------------------------------------------------------------
\* download_collection calls explored
MaxRuns == 3
\* default of the parameter retry_count of _download_file
RetryCount == 3

BdUrls == {"u1", "u2"}

\* urlparse(url).path.strip('/').split('/')
UrlParts(u) ==
    IF u = "u1" THEN <<"bulkdata", "BILLS", "118", "a.xml">>
    ELSE <<"bulkdata", "BILLS", "", "118", ".", "b.xml">>

\* _get_local_path: the parts that are empty or start with '.' are dropped
IsCleanPart(part) == part \notin {"", ".", ".."}
GetLocalPath(u) == SelectSeq(UrlParts(u), IsCleanPart)

\* bodies the server holds and their length in bytes
Bodies == {"x", "y"}
Size(body) == IF body = "x" THEN 1 ELSE 2

\* hashlib.sha256 of the file content
CalculateChecksum(content) == <<"sha256", content>>
NoChecksum == <<"sha256", "none">>

NoRow == [status |-> "none", checksum |-> NoChecksum]
Pending == [status |-> "PENDING", error |-> "none", checksum |-> NoChecksum]

LocalPaths == {GetLocalPath(u) : u \in BdUrls}

\* the counters that download_collection resets and reports
NoStats == [successful_downloads |-> 0, failed_downloads |-> 0, skipped_files |-> 0]
\* no request of the current call was answered yet
NoAnswer == [wildcard |-> FALSE, status |-> -1]
Answer(w, status) == [wildcard |-> w, status |-> status]

BDIdle ==
    /\ runs = 0
    /\ bdPhase = "idle"
    /\ downloaded_files = {}
    /\ failed_urls = {}
    /\ db = [u \in BdUrls |-> NoRow]
    /\ everCompleted = {}
    /\ wpc = [u \in BdUrls |-> "none"]
    /\ wattempt = [u \in BdUrls |-> 0]
    /\ wres = [u \in BdUrls |-> Pending]
    /\ gets = [u \in BdUrls |-> 0]
    /\ bdDisk = [p \in LocalPaths |-> Absent]
    /\ total_bytes = 0
    /\ wacc = [u \in BdUrls |-> 0]
    /\ stats = NoStats
    /\ last = [u \in BdUrls |-> NoAnswer]

\* _load_existing_downloads: SELECT url FROM downloads WHERE status = "COMPLETED"
LoadExistingDownloads == {u \in BdUrls : db[u].status = "COMPLETED"}

\* download_collection up to the submission of the workers: the statistics are
\* reset, the tracking set is reloaded and the crawl returns the urls S
DownloadCollection(S) ==
    /\ bdPhase = "idle"
    /\ runs < MaxRuns
    /\ runs' = runs + 1
    /\ total_bytes' = 0
    /\ downloaded_files' = LoadExistingDownloads
    /\ gets' = [u \in BdUrls |-> 0]
    /\ wattempt' = [u \in BdUrls |-> 0]
    /\ wres' = [u \in BdUrls |-> Pending]
    /\ stats' = NoStats
    /\ last' = [u \in BdUrls |-> NoAnswer]
    /\ IF S = {}
       THEN UNCHANGED <<bdPhase, wpc>>
       ELSE /\ bdPhase' = "running"
            /\ wpc' = [u \in BdUrls |-> IF u \in S THEN "queued" ELSE "none"]
    /\ UNCHANGED <<wacc, failed_urls, db, everCompleted, bdDisk, nonBD>>

\* a new process: GovInfoBulkDownloader() over the same database and files
NewProcess ==
    /\ bdPhase = "idle"
    /\ runs > 0
    /\ downloaded_files' = {}
    /\ failed_urls' = {}
    /\ total_bytes' = 0
    /\ stats' = NoStats
    /\ UNCHANGED <<wacc, runs, bdPhase, db, everCompleted, wpc, wattempt, wres, gets, bdDisk, last, nonBD>>

\* (variant without the check of the tracking set)
WStartNoSkip(u) ==
    /\ wpc[u] = "queued"
    /\ wpc' = [wpc EXCEPT ![u] = "get"]
    /\ UNCHANGED <<wacc, runs, bdPhase, downloaded_files, failed_urls, db, everCompleted,
                   wattempt, wres, gets, bdDisk, total_bytes, stats, last, nonBD>>

\* _download_file: `if url in self.downloaded_files` under the lock
WStart(u) ==
    /\ wpc[u] = "queued"
    /\ IF u \in downloaded_files
       THEN /\ wres' = [wres EXCEPT ![u] = [status |-> "SKIPPED", error |-> "Already downloaded",
                                            checksum |-> NoChecksum]]
            /\ wpc' = [wpc EXCEPT ![u] = "returned"]
       ELSE /\ wpc' = [wpc EXCEPT ![u] = "get"]
            /\ UNCHANGED wres
    /\ UNCHANGED <<wacc, runs, bdPhase, downloaded_files, failed_urls, db, everCompleted,
                   wattempt, gets, bdDisk, total_bytes, stats, last, nonBD>>

\* the `except Exception` of one attempt: FAILED on the last attempt,
\* otherwise time.sleep and the next attempt
WAttemptFailed(u, msg) ==
    IF wattempt[u] = RetryCount - 1
    THEN /\ wres' = [wres EXCEPT ![u] = [@ EXCEPT !.status = "FAILED", !.error = msg]]
         /\ failed_urls' = failed_urls \cup {u}
         /\ wpc' = [wpc EXCEPT ![u] = "returned"]
         /\ UNCHANGED wattempt
    ELSE /\ wattempt' = [wattempt EXCEPT ![u] = @ + 1]
         /\ wpc' = [wpc EXCEPT ![u] = "sleep"]
         /\ UNCHANGED <<wres, failed_urls>>

\* `time.sleep(wait_time)` is over: the next turn of the attempt loop
WSleepDone(u) ==
    /\ wpc[u] = "sleep"
    /\ wpc' = [wpc EXCEPT ![u] = "get"]
    /\ UNCHANGED <<wacc, runs, bdPhase, downloaded_files, failed_urls, db, everCompleted,
                   wattempt, wres, gets, bdDisk, total_bytes, stats, last, nonBD>>

\* `response = self.session.get(url, ...)` with the default Accept header
WGet(u, status) ==
    /\ wpc[u] = "get"
    /\ gets' = [gets EXCEPT ![u] = @ + 1]
    /\ IF status = 200
       THEN /\ wpc' = [wpc EXCEPT ![u] = "write"]
            /\ UNCHANGED <<wres, failed_urls, wattempt>>
       ELSE IF status = 406
       THEN /\ wpc' = [wpc EXCEPT ![u] = "get_wildcard"]
            /\ UNCHANGED <<wres, failed_urls, wattempt>>
       ELSE WAttemptFailed(u, IF status = Raises THEN "transport" ELSE "HTTP status")
    /\ last' = [last EXCEPT ![u] = Answer(FALSE, status)]
    /\ UNCHANGED <<wacc, runs, bdPhase, downloaded_files, db, everCompleted, bdDisk, total_bytes,
                   stats, nonBD>>

\* the second request of the 406 branch, with `Accept: */*`; on 200 the code
\* does `continue`: the response is dropped and the next attempt starts, and
\* after the last attempt the loop ends with the status still PENDING
WGetWildcard(u, status) ==
    /\ wpc[u] = "get_wildcard"
    /\ gets' = [gets EXCEPT ![u] = @ + 1]
    /\ IF status = 200
       THEN /\ wattempt' = [wattempt EXCEPT ![u] = IF @ = RetryCount - 1 THEN @ ELSE @ + 1]
            /\ wpc' = [wpc EXCEPT ![u] = IF wattempt[u] = RetryCount - 1 THEN "returned" ELSE "get"]
            /\ UNCHANGED <<wres, failed_urls>>
       ELSE WAttemptFailed(u, IF status = Raises THEN "transport" ELSE "406 error")
    /\ last' = [last EXCEPT ![u] = Answer(TRUE, status)]
    /\ UNCHANGED <<wacc, runs, bdPhase, downloaded_files, db, everCompleted, bdDisk, total_bytes,
                   stats, nonBD>>

\* `with open(local_path, 'wb')` and the chunk loop up to the load of
\* self.total_bytes by `self.total_bytes += len(chunk)`, which runs outside
\* the lock: the body is written, or the stream breaks after the file was opened
WWrite(u, body, ok) ==
    /\ wpc[u] = "write"
    /\ IF ok
       THEN /\ bdDisk' = [bdDisk EXCEPT ![GetLocalPath(u)] = body]
            /\ wacc' = [wacc EXCEPT ![u] = total_bytes]
            /\ wpc' = [wpc EXCEPT ![u] = "add"]
            /\ UNCHANGED <<wres, failed_urls, wattempt, last>>
       ELSE /\ bdDisk' = [bdDisk EXCEPT ![GetLocalPath(u)] = Partial]
            /\ UNCHANGED wacc
            /\ last' = [last EXCEPT ![u] = Answer(@.wildcard, Raises)]
            /\ WAttemptFailed(u, "transport")
    /\ UNCHANGED <<runs, bdPhase, downloaded_files, db, everCompleted, gets, total_bytes,
                   stats, nonBD>>

\* the store of `self.total_bytes += len(chunk)`: the loaded value plus the
\* length of the chunk
WAddBytes(u) ==
    /\ wpc[u] = "add"
    /\ total_bytes' = wacc[u] + Size(bdDisk[GetLocalPath(u)])
    /\ wacc' = [wacc EXCEPT ![u] = 0]
    /\ wpc' = [wpc EXCEPT ![u] = "checksum"]
    /\ UNCHANGED <<runs, bdPhase, downloaded_files, failed_urls, db, everCompleted,
                   wattempt, wres, gets, bdDisk, stats, last, nonBD>>

\* _is_duplicate: SELECT 1 FROM downloads WHERE checksum = ?
IsDuplicate(u, checksum) == \E v \in BdUrls : db[v].checksum = checksum

\* checksum, duplicate check, COMPLETED and the update of the tracking set
WChecksum(u) ==
    /\ wpc[u] = "checksum"
    /\ LET c == CalculateChecksum(bdDisk[GetLocalPath(u)]) IN
       IF IsDuplicate(u, c)
       THEN /\ bdDisk' = [bdDisk EXCEPT ![GetLocalPath(u)] = Absent]
            /\ wres' = [wres EXCEPT ![u] = [status |-> "SKIPPED", error |-> "Duplicate file detected",
                                            checksum |-> c]]
            /\ UNCHANGED downloaded_files
       ELSE /\ wres' = [wres EXCEPT ![u] = [status |-> "COMPLETED", error |-> "none", checksum |-> c]]
            /\ downloaded_files' = downloaded_files \cup {u}
            /\ UNCHANGED bdDisk
    /\ wpc' = [wpc EXCEPT ![u] = "returned"]
    /\ UNCHANGED <<wacc, runs, bdPhase, failed_urls, db, everCompleted, wattempt, gets, total_bytes,
                   stats, last, nonBD>>

\* the `if / elif / elif` over result.status that updates the statistics
Counted(st, status) ==
    IF status = "COMPLETED" THEN [st EXCEPT !.successful_downloads = @ + 1]
    ELSE IF status = "FAILED" THEN [st EXCEPT !.failed_downloads = @ + 1]
    ELSE IF status = "SKIPPED" THEN [st EXCEPT !.skipped_files = @ + 1]
    ELSE st

\* main thread, as_completed: _record_download (INSERT OR REPLACE by url)
\* and the statistics
RecordDownload(u) ==
    /\ bdPhase = "running"
    /\ wpc[u] = "returned"
    /\ db' = [db EXCEPT ![u] = [status |-> wres[u].status, checksum |-> wres[u].checksum]]
    /\ everCompleted' = IF wres[u].status = "COMPLETED" THEN everCompleted \cup {u}
                        ELSE everCompleted
    /\ wpc' = [wpc EXCEPT ![u] = "recorded"]
    /\ stats' = Counted(stats, wres[u].status)
    /\ UNCHANGED <<wacc, runs, bdPhase, downloaded_files, failed_urls, wattempt, wres, gets,
                   bdDisk, total_bytes, last, nonBD>>

\* every future was consumed: download_collection returns its statistics
CollectionDone ==
    /\ bdPhase = "running"
    /\ \A u \in BdUrls : wpc[u] \in {"none", "recorded"}
    /\ bdPhase' = "idle"
    /\ wpc' = [u \in BdUrls |-> "none"]
    /\ UNCHANGED <<wacc, runs, downloaded_files, failed_urls, db, everCompleted, wattempt, wres,
                   gets, bdDisk, total_bytes, stats, last, nonBD>>

\* ------------------------------------------------------------------------
\* GovInfoBulkDownloader._crawl_collection_recursive
\* ------------------------------------------------------------------------
\* the remote tree: directories at depth 0 .. TreeDepth below the start url
TreeDepth == 4
\* values of the argument max_depth that are tried
MaxCrawlDepth == 3

\* the argument `collection`, and the start url that download_collection
\* builds for a congress: bulkdata/<collection>/<congress>/
CrCollection == "BILLS"
CrStart == <<"bulkdata", "BILLS", "118">>
\* links of folders: the parent of the start url, a collection whose name
\* holds the name of the crawled one, and a collection whose name does not
CrParent == <<"bulkdata", "BILLS">>
CrNamesake == <<"bulkdata", "BILLSTATUS", "118">>
CrForeign == <<"bulkdata", "FR", "118">>

\* `collection in link`, on one segment of the link
NameContains(seg, c) == seg = c \/ (seg = "BILLSTATUS" /\ c = "BILLS")

\* the test before the recursion: '/bulkdata/' in link and collection in link
CrFollows(link) ==
    /\ \E i \in DOMAIN link : link[i] = "bulkdata"
    /\ \E i \in DOMAIN link : NameContains(link[i], CrCollection)

\* the url is the start url or lies beneath it
Beneath(link) ==
    Len(link) >= Len(CrStart) /\ SubSeq(link, 1, Len(CrStart)) = CrStart

\* one <file> element / one <a href>: a file or a folder lying in the
\* directory of depth k; `link` holds the first segments of the folder's url
CrFile(k, ext) == [folder |-> FALSE, depth |-> k, ext |-> ext]
CrFolder(k, link, leaf) ==
    [folder |-> TRUE, depth |-> k, ext |-> "", link |-> link, leaf |-> leaf]

\* the listing of a directory of depth k. A leaf directory holds one
\* stylesheet; the others hold a wanted file, an unwanted one, a folder of
\* another collection, a leaf folder and the folder of the next level, and
\* with `out` also a link to the parent of the start url and one to a
\* collection with a similar name
CrListing(k, leaf, out) ==
    IF leaf THEN <<CrFile(k, "xsl")>>
    ELSE <<CrFile(k, "xml"), CrFile(k, "pdf"), CrFolder(k + 1, CrForeign, TRUE),
           CrFolder(k + 1, CrStart, TRUE)>>
             \o (IF out THEN <<CrFolder(k + 1, CrParent, TRUE), CrFolder(k + 1, CrNamesake, TRUE)>>
                 ELSE <<>>)
             \o (IF k < TreeDepth THEN <<CrFolder(k + 1, CrStart, FALSE)>> ELSE <<>>)

\* link.lower().endswith(('.xml', '.xsl', '.xsd'))
CrWanted(e) == e.ext \in {"xml", "xsl", "xsd"}

\* what a listing request can yield: the custom XML format, an HTML index,
\* a 200 with neither, another status, or an exception of requests
CrAnswers == {"xml", "html", "other", "status", "raises"}

CrFrame(k, leaf, url) ==
    [depth |-> k, leaf |-> leaf, url |-> url, stage |-> "enter", idx |-> 1, entries |-> <<>>,
     file_urls |-> <<>>]
CrTop == crStack[Len(crStack)]

CRIdle ==
    /\ crMax = 0
    /\ crStack = <<>>
    /\ crOut = NotYet
    /\ crReqs = {}
    /\ crFailed = FALSE
    /\ crLinksOut = FALSE

\* _crawl_collection_recursive(start_url, collection, max_depth = d)
CrawlCall(d, out) ==
    /\ crStack = <<>>
    /\ ~crOut.done
    /\ crMax' = d
    /\ crLinksOut' = out
    /\ crStack' = <<CrFrame(0, FALSE, CrStart)>>
    /\ UNCHANGED <<crOut, crReqs, crFailed, nonCR>>

\* `return file_urls` of the innermost call: the caller extends its list
CrawlReturn(files) ==
    IF Len(crStack) = 1
    THEN /\ crStack' = <<>>
         /\ crOut' = Returned(files)
    ELSE /\ crStack' =
              [i \in 1..(Len(crStack) - 1) |->
                  IF i = Len(crStack) - 1
                  THEN [crStack[i] EXCEPT !.file_urls = @ \o files, !.idx = @ + 1]
                  ELSE crStack[i]]
         /\ UNCHANGED crOut

\* (variant without the depth check)
CrawlEnterUnlimited(answer) ==
    /\ crStack # <<>>
    /\ CrTop.stage = "enter"
    /\ crReqs' = crReqs \cup {<<CrTop.depth, CrTop.leaf, CrTop.url>>}
    /\ IF answer \in {"xml", "html"}
       THEN /\ crStack' = [crStack EXCEPT ![Len(crStack)] =
                               [@ EXCEPT !.stage = "iter", !.entries = CrListing(CrTop.depth, CrTop.leaf, crLinksOut)]]
            /\ UNCHANGED <<crOut, crFailed>>
       ELSE /\ CrawlReturn(<<>>)
            /\ crFailed' = TRUE
    /\ UNCHANGED <<crMax, crLinksOut, nonCR>>

\* the entry of a call: the depth check, `self.session.get(start_url)`,
\* the status check and the choice of the parser
CrawlEnter(answer) ==
    /\ crStack # <<>>
    /\ CrTop.stage = "enter"
    /\ IF CrTop.depth > crMax
       THEN /\ CrawlReturn(<<>>)
            /\ UNCHANGED <<crReqs, crFailed>>
       ELSE /\ crReqs' = crReqs \cup {<<CrTop.depth, CrTop.leaf, CrTop.url>>}
            /\ IF answer \in {"xml", "html"}
               THEN /\ crStack' = [crStack EXCEPT ![Len(crStack)] =
                                       [@ EXCEPT !.stage = "iter", !.entries = CrListing(CrTop.depth, CrTop.leaf, crLinksOut)]]
                    /\ UNCHANGED <<crOut, crFailed>>
               ELSE /\ CrawlReturn(<<>>)
                    /\ crFailed' = TRUE
    /\ UNCHANGED <<crMax, crLinksOut, nonCR>>

\* one turn of `for file_elem in root.findall('.//file')` (or of the loop
\* over the <a> elements), and the return after the last turn
CrawlIter ==
    /\ crStack # <<>>
    /\ CrTop.stage = "iter"
    /\ IF CrTop.idx > Len(CrTop.entries)
       THEN CrawlReturn(CrTop.file_urls)
       ELSE LET e == CrTop.entries[CrTop.idx] IN
            /\ UNCHANGED crOut
            /\ IF e.folder /\ CrFollows(e.link)
               THEN crStack' = Append(crStack, CrFrame(e.depth, e.leaf, e.link))
               ELSE crStack' = [crStack EXCEPT ![Len(crStack)] =
                        [@ EXCEPT !.idx = @ + 1,
                                  !.file_urls = IF ~e.folder /\ CrWanted(e)
                                                THEN Append(@, e) ELSE @]]
    /\ UNCHANGED <<crMax, crReqs, crFailed, crLinksOut, nonCR>>

\* ------------------------------------------------------------------------
\* GovInfo118thCongressDownloader.download_118th_congress / _download_file
\* ------------------------------------------------------------------------
\* download_118th_congress calls explored
MaxCongressRuns == 2

CGIdle ==
    /\ cgRuns = 0
    /\ cgPhase = "idle"
    /\ cgTotal = 0
    /\ cgPc = [u \in BdUrls |-> "none"]
    /\ cgAttempt = [u \in BdUrls |-> 0]
    /\ cgStatus = [u \in BdUrls |-> "pending"]
    /\ cgFile = [u \in BdUrls |-> Absent]
    /\ cgChecksums = [u \in BdUrls |-> NoChecksum]
    /\ cgDownloaded = {}
    /\ cgStats = NoStats
    /\ cgAcc = 0

\* download_118th_congress up to the submission of the workers: the
\* statistics are reset and S is the list of the urls that were discovered
\* (the tracking file holds what the object holds)
Download118thCongress(S) ==
    /\ cgPhase = "idle"
    /\ cgRuns < MaxCongressRuns
    /\ cgRuns' = cgRuns + 1
    /\ cgTotal' = Cardinality(S)
    /\ cgStats' = NoStats
    /\ cgAttempt' = [u \in BdUrls |-> 0]
    /\ cgStatus' = [u \in BdUrls |-> "pending"]
    /\ IF S = {}
       THEN UNCHANGED <<cgPhase, cgPc>>
       ELSE /\ cgPhase' = "running"
            /\ cgPc' = [u \in BdUrls |-> IF u \in S THEN "queued" ELSE "none"]
    /\ UNCHANGED <<cgFile, cgChecksums, cgDownloaded, cgAcc, nonCG>>

\* _download_file: `if url in self.downloaded_files` under the lock
CgStart(u) ==
    /\ cgPc[u] = "queued"
    /\ IF u \in cgDownloaded
       THEN /\ cgStatus' = [cgStatus EXCEPT ![u] = "skipped"]
            /\ cgPc' = [cgPc EXCEPT ![u] = "returned"]
       ELSE /\ cgPc' = [cgPc EXCEPT ![u] = "get"]
            /\ UNCHANGED cgStatus
    /\ UNCHANGED <<cgRuns, cgPhase, cgTotal, cgAttempt, cgFile, cgChecksums, cgDownloaded,
                   cgStats, cgAcc, nonCG>>

\* the `except Exception` of one attempt: 'failed' on the last attempt,
\* otherwise time.sleep and the next attempt
CgAttemptFailed(u) ==
    IF cgAttempt[u] = RetryCount - 1
    THEN /\ cgStatus' = [cgStatus EXCEPT ![u] = "failed"]
         /\ cgPc' = [cgPc EXCEPT ![u] = "returned"]
         /\ UNCHANGED cgAttempt
    ELSE /\ cgAttempt' = [cgAttempt EXCEPT ![u] = @ + 1]
         /\ cgPc' = [cgPc EXCEPT ![u] = "get"]
         /\ UNCHANGED cgStatus

\* `response = self.session.get(url, ...)` with the default Accept header
CgGet(u, status) ==
    /\ cgPc[u] = "get"
    /\ IF status = 200
       THEN /\ cgPc' = [cgPc EXCEPT ![u] = "write"]
            /\ UNCHANGED <<cgStatus, cgAttempt>>
       ELSE IF status = 406
       THEN /\ cgPc' = [cgPc EXCEPT ![u] = "get_wildcard"]
            /\ UNCHANGED <<cgStatus, cgAttempt>>
       ELSE CgAttemptFailed(u)
    /\ UNCHANGED <<cgRuns, cgPhase, cgTotal, cgFile, cgChecksums, cgDownloaded, cgStats,
                   cgAcc, nonCG>>

\* the second request of the 406 branch; on 200 the code does `continue`,
\* and after the last attempt the loop ends with the status still 'pending'
CgGetWildcard(u, status) ==
    /\ cgPc[u] = "get_wildcard"
    /\ IF status = 200
       THEN /\ cgAttempt' = [cgAttempt EXCEPT ![u] = IF @ = RetryCount - 1 THEN @ ELSE @ + 1]
            /\ cgPc' = [cgPc EXCEPT ![u] =
                           IF cgAttempt[u] = RetryCount - 1 THEN "returned" ELSE "get"]
            /\ UNCHANGED cgStatus
       ELSE CgAttemptFailed(u)
    /\ UNCHANGED <<cgRuns, cgPhase, cgTotal, cgFile, cgChecksums, cgDownloaded, cgStats,
                   cgAcc, nonCG>>

\* `with open(local_path, 'wb')` and the chunk loop
CgWrite(u, body, ok) ==
    /\ cgPc[u] = "write"
    /\ IF ok
       THEN /\ cgFile' = [cgFile EXCEPT ![u] = body]
            /\ cgPc' = [cgPc EXCEPT ![u] = "check"]
            /\ UNCHANGED <<cgStatus, cgAttempt>>
       ELSE /\ cgFile' = [cgFile EXCEPT ![u] = Partial]
            /\ CgAttemptFailed(u)
    /\ UNCHANGED <<cgRuns, cgPhase, cgTotal, cgChecksums, cgDownloaded, cgStats, cgAcc, nonCG>>

\* the checksum and, under the lock, `if checksum in
\* self.file_checksums.values()`: the duplicate is removed and counted by the
\* worker; otherwise the url and its checksum are tracked
CgCheck(u) ==
    /\ cgPc[u] = "check"
    /\ LET c == CalculateChecksum(cgFile[u]) IN
       IF \E v \in BdUrls : cgChecksums[v] = c
       THEN /\ cgFile' = [cgFile EXCEPT ![u] = Absent]
            /\ cgStatus' = [cgStatus EXCEPT ![u] = "skipped"]
            /\ cgStats' = [cgStats EXCEPT !.skipped_files = @ + 1]
            /\ UNCHANGED <<cgDownloaded, cgChecksums>>
       ELSE /\ cgStatus' = [cgStatus EXCEPT ![u] = "completed"]
            /\ cgDownloaded' = cgDownloaded \cup {u}
            /\ cgChecksums' = [cgChecksums EXCEPT ![u] = c]
            /\ UNCHANGED <<cgFile, cgStats>>
    /\ cgPc' = [cgPc EXCEPT ![u] = "returned"]
    /\ UNCHANGED <<cgRuns, cgPhase, cgTotal, cgAttempt, cgAcc, nonCG>>

\* main thread, as_completed: the `if / elif / elif` over result['status'];
\* for 'skipped' this is the load of `self.skipped_files += 1`, which the
\* main thread runs without the lock
CgCount(u) ==
    /\ cgPhase = "running"
    /\ cgPc[u] = "returned"
    /\ \A v \in BdUrls : cgPc[v] # "counting"
    /\ IF cgStatus[u] = "skipped"
       THEN /\ cgAcc' = cgStats.skipped_files
            /\ cgPc' = [cgPc EXCEPT ![u] = "counting"]
            /\ UNCHANGED cgStats
       ELSE /\ cgStats' =
                 IF cgStatus[u] = "completed"
                 THEN [cgStats EXCEPT !.successful_downloads = @ + 1]
                 ELSE IF cgStatus[u] = "failed"
                 THEN [cgStats EXCEPT !.failed_downloads = @ + 1]
                 ELSE cgStats
            /\ cgPc' = [cgPc EXCEPT ![u] = "counted"]
            /\ UNCHANGED cgAcc
    /\ UNCHANGED <<cgRuns, cgPhase, cgTotal, cgAttempt, cgStatus, cgFile, cgChecksums,
                   cgDownloaded, nonCG>>

\* the store of the main thread's `self.skipped_files += 1`
CgCountStore(u) ==
    /\ cgPc[u] = "counting"
    /\ cgStats' = [cgStats EXCEPT !.skipped_files = cgAcc + 1]
    /\ cgAcc' = 0
    /\ cgPc' = [cgPc EXCEPT ![u] = "counted"]
    /\ UNCHANGED <<cgRuns, cgPhase, cgTotal, cgAttempt, cgStatus, cgFile, cgChecksums,
                   cgDownloaded, nonCG>>

\* every future was consumed: _save_tracking_file and `return self._get_stats()`
Congress118Done ==
    /\ cgPhase = "running"
    /\ \A u \in BdUrls : cgPc[u] \in {"none", "counted"}
    /\ cgPhase' = "idle"
    /\ cgPc' = [u \in BdUrls |-> "none"]
    /\ UNCHANGED <<cgRuns, cgTotal, cgAttempt, cgStatus, cgFile, cgChecksums, cgDownloaded,
                   cgStats, cgAcc, nonCG>>

\* ------------------------------------------------------------------------
\* run_comprehensive_ingestion.main
\* ------------------------------------------------------------------------
\* len(CONGRESS_SESSIONS) and the invocations of main() that are followed
NumCongresses == 2
MaxMainRuns == 2

OrDocTypes == <<"BILLS", "PLAW">>
NumPairs == NumCongresses * Len(OrDocTypes)
\* the i-th combination of `for congress ...: for doc_type ...:` and its
\* key f"{congress}_{doc_type}"
OrKey(i) == <<((i - 1) \div Len(OrDocTypes)) + 1, OrDocTypes[((i - 1) % Len(OrDocTypes)) + 1]>>
OrKeys == {OrKey(i) : i \in 1..NumPairs}

\* a stored result: `success` and the invocation that wrote it (standing
\* for its timestamp); NoResult for a key the dict does not hold
NoResult == [present |-> FALSE, success |-> FALSE, stamp |-> 0]
OrResult(success, n) == [present |-> TRUE, success |-> success, stamp |-> n]
\* results[key].get("success", False)
OrSucceeded(res, key) == res[key].present /\ res[key].success

\* results files left by earlier invocations (a missing file loads as {})
OrFiles == [OrKeys -> {NoResult, OrResult(TRUE, 0), OrResult(FALSE, 0)}]

ORIdle(file) ==
    /\ orRun = 0
    /\ orPc = "idle"
    /\ orIdx = 0
    /\ orResults = [k \in OrKeys |-> NoResult]
    /\ orFile = file
    /\ orOutcome = FALSE
    /\ orCmds = {}
    /\ orFile0 = file

\* main() up to the loop: results = load_existing_results(logger)
OrMain ==
    /\ orPc = "idle"
    /\ orRun < MaxMainRuns
    /\ orRun' = orRun + 1
    /\ orResults' = orFile
    /\ orFile0' = orFile
    /\ orCmds' = {}
    /\ orIdx' = 1
    /\ orPc' = "loop"
    /\ UNCHANGED <<orFile, orOutcome, nonOR>>

\* (variant without the skip of the pairs already completed)
OrNextPairNoSkip ==
    /\ orPc = "loop"
    /\ IF orIdx > NumPairs
       THEN orPc' = "idle"
       ELSE orPc' = "run"
    /\ UNCHANGED <<orRun, orIdx, orResults, orFile, orOutcome, orCmds, orFile0, nonOR>>

\* the head of one turn: `if key in results and results[key].get("success")`
\* then `continue`; after the last turn main() returns
OrNextPair ==
    /\ orPc = "loop"
    /\ IF orIdx > NumPairs
       THEN /\ orPc' = "idle"
            /\ UNCHANGED orIdx
       ELSE IF OrSucceeded(orResults, OrKey(orIdx))
       THEN /\ orIdx' = orIdx + 1
            /\ UNCHANGED orPc
       ELSE /\ orPc' = "run"
            /\ UNCHANGED orIdx
    /\ UNCHANGED <<orRun, orResults, orFile, orOutcome, orCmds, orFile0, nonOR>>

\* run_ingestion_command: the subprocess ends with return code 0 or not
\* (a timeout and an exception give success = False as well)
OrRunCommand(success) ==
    /\ orPc = "run"
    /\ orCmds' = orCmds \cup {OrKey(orIdx)}
    /\ orOutcome' = success
    /\ orPc' = "store"
    /\ UNCHANGED <<orRun, orIdx, orResults, orFile, orFile0, nonOR>>

\* results[key] = {...}; save_results(results, logger); the next turn
OrStore ==
    /\ orPc = "store"
    /\ LET stored == [orResults EXCEPT ![OrKey(orIdx)] = OrResult(orOutcome, orRun)] IN
       /\ orResults' = stored
       /\ orFile' = stored
    /\ orIdx' = orIdx + 1
    /\ orPc' = "loop"
    /\ UNCHANGED <<orRun, orOutcome, orCmds, orFile0, nonOR>>

\* ------------------------------------------------------------------------
\* Specifications
\* ------------------------------------------------------------------------
NoServer ==
    [xml |-> [d \in Dirs |-> [status |-> 404, wellformed |-> FALSE, body |-> <<>>]],
     json |-> [d \in Dirs |-> [status |-> 404, valid |-> FALSE, data |-> NoData]]]

NoConfig == [validate_xml |-> FALSE, mapped |-> FALSE]

RLInit == RLStart /\ LSIdle(NoServer) /\ DLIdle(NoConfig) /\ BDIdle /\ CRIdle /\ ORIdle([k \in OrKeys |-> NoResult]) /\ RunIdle /\ CGIdle

RLNext ==
    \/ Tick
    \/ \E t \in Tasks, n \in {1, Capacity, Capacity + 1} : AcquireCall(t, n)
    \/ \E t \in Tasks : AcquireLock(t)
    \/ \E t \in Tasks : AcquireRefill(t)
    \/ \E t \in Tasks : AcquireCheck(t)
    \/ \E t \in Tasks : AcquireReturn(t)
    \/ \E t \in Tasks : ReleaseLock(t)
    \/ \E t \in Tasks : ReleaseBody(t)

SpecRL == RLInit /\ [][RLNext]_vars

\* The event loop runs every task that is ready and the clock advances;
\* nothing obliges any task to call acquire() or release().
RLFairness ==
    /\ WF_vars(Tick)
    /\ \A t \in Tasks :
        /\ SF_vars(AcquireLock(t))
        /\ WF_vars(AcquireRefill(t))
        /\ WF_vars(AcquireCheck(t))
        /\ WF_vars(AcquireReturn(t))
        /\ WF_vars(ReleaseBody(t))

FairSpecRL == SpecRL /\ RLFairness

\* the limiter with tasks that may be cancelled while they wait
CancelNext ==
    \/ Tick
    \/ \E t \in Tasks, n \in {1, Capacity} : AcquireCall(t, n)
    \/ \E t \in Tasks : AcquireLock(t)
    \/ \E t \in Tasks : AcquireRefill(t)
    \/ \E t \in Tasks : AcquireCheck(t)
    \/ \E t \in Tasks : AcquireReturn(t)
    \/ \E t \in Tasks : Cancel(t)
    \/ \E t \in Tasks : ReleaseLock(t)
    \/ \E t \in Tasks : ReleaseBody(t)
    \/ \E t \in Tasks : ReleaseRaised(t)

SpecCancel == RLInit /\ [][CancelNext]_vars


LSInit == RLStart /\ (\E server \in Servers(RootEntries, SubEntries) : LSIdle(server)) /\ DLIdle(NoConfig) /\ BDIdle /\ CRIdle /\ ORIdle([k \in OrKeys |-> NoResult]) /\ RunIdle /\ CGIdle

LSNext ==
    \/ GetDocumentList
    \/ ListXmlGet
    \/ ListIterEntry
    \/ ListJsonGet

SpecList == LSInit /\ [][LSNext]_vars

\* listings behind the pairs that process_document_type is run on
Listing(body) == [status |-> 200, wellformed |-> TRUE, body |-> body]
NoListing == [status |-> 404, wellformed |-> FALSE, body |-> <<>>]
NoJson == [status |-> 404, valid |-> FALSE, data |-> NoData]
Server(xr, xs, jr) ==
    [xml |-> [d \in Dirs |-> IF d = Root THEN xr ELSE xs],
     json |-> [d \in Dirs |-> IF d = Root THEN jr ELSE NoJson]]

IngServers ==
    { Server(NoListing, NoListing, NoJson),
      Server(Listing(<<XmlFile(Link(Root, "a", "xml"))>>), NoListing, NoJson),
      Server(Listing(<<XmlFile(Link(Root, "a", "xml")), XmlFile(Link(Root, "b", "XML"))>>),
             NoListing, NoJson),
      Server(Listing(<<XmlFile(Link(Root, "n", "xml")), XmlFolder(Sub)>>),
             Listing(<<XmlFile(Link(Sub, "n", "xml"))>>), NoJson),
      Server(Listing(<<XmlFile(Link(Root, "a", "xml")), XmlBadFolder>>), NoListing,
             [status |-> 200, valid |-> TRUE,
              data |-> JsonOther(<<JsonFile(Link(Root, "a", "xml"))>>)]),
      Server(Listing(<<XmlFile(Link(Root, "a", "xml")), XmlBadFolder>>), NoListing,
             [status |-> 200, valid |-> TRUE,
              data |-> JsonOther(<<JsonFile(Link(Root, "a", "xml")), JsonFolder(<<>>),
                                   JsonFile(Link(Root, "j", "xml"))>>)]) }

IngInit ==
    /\ RLStart
    /\ \E server \in IngServers : LSIdle(server)
    /\ \E c \in Configs : DLIdle(c)
    /\ BDIdle
    /\ CRIdle
    /\ ORIdle([k \in OrKeys |-> NoResult])
    /\ RunIdle /\ CGIdle

IngNext ==
    \/ GetDocumentList
    \/ ListXmlGet
    \/ ListIterEntry
    \/ ListJsonGet
    \/ PdtLaunch
    \/ \E t \in Tasks : DlExists(t)
    \/ \E t \in Tasks : DlEnter(t)
    \/ \E t \in Tasks : DlAcquire(t)
    \/ \E t \in Tasks : AcquireLock(t)
    \/ \E t \in Tasks : AcquireRefill(t)
    \/ \E t \in Tasks : AcquireCheck(t)
    \/ \E t \in Tasks, status \in {Raises, 200, 404, 500} : DlGet(t, status)
    \/ \E t \in Tasks : DlOpen(t)
    \/ \E t \in Tasks, body \in {"valid", "invalid", "raises"} : DlWrite(t, body)
    \/ \E t \in Tasks : DlValidate(t)
    \/ \E t \in Tasks : DlSleepDone(t)
    \/ PdtFinish
    \/ Tick

SpecIng == IngInit /\ [][IngNext]_vars

\* listings behind the pairs of a run
RunServers ==
    { Server(NoListing, NoListing, NoJson),
      Server(Listing(<<XmlBadFolder>>), NoListing,
             [status |-> 200, valid |-> TRUE,
              data |-> JsonOther(<<JsonFile(Link(Root, "j", "xml"))>>)]),
      Server(Listing(<<XmlFile(Link(Root, "a", "xml")), XmlFile(Link(Root, "b", "XML"))>>),
             NoListing, NoJson) }

RunInit ==
    /\ RLStart
    /\ \E server \in RunServers : LSIdle(server)
    /\ \E c \in Configs : DLIdle(c)
    /\ BDIdle
    /\ CRIdle
    /\ ORIdle([k \in OrKeys |-> NoResult])
    /\ RunIdle /\ CGIdle

RunNext ==
    \/ GetDocumentList
    \/ ListXmlGet
    \/ ListIterEntry
    \/ ListJsonGet
    \/ PdtLaunch
    \/ \E t \in Tasks : DlExists(t)
    \/ \E t \in Tasks : DlEnter(t)
    \/ \E t \in Tasks : DlAcquire(t)
    \/ \E t \in Tasks : AcquireLock(t)
    \/ \E t \in Tasks : AcquireRefill(t)
    \/ \E t \in Tasks : AcquireCheck(t)
    \/ \E t \in Tasks, status \in {Raises, 200, 404, 500} : DlGet(t, status)
    \/ \E t \in Tasks : DlOpen(t)
    \/ \E t \in Tasks, body \in {"valid", "invalid", "raises"} : DlWrite(t, body)
    \/ \E t \in Tasks : DlValidate(t)
    \/ \E t \in Tasks : DlSleepDone(t)
    \/ PdtFinish
    \/ \E server \in RunServers : RunNextPair(server)
    \/ RunReturn
    \/ Tick

SpecRun == RunInit /\ [][RunNext]_vars

\* The event loop runs every coroutine that is ready, every request is
\* answered or times out, every sleep ends and the clock advances.
RunFairness ==
    /\ WF_vars(Tick)
    /\ WF_vars(GetDocumentList)
    /\ WF_vars(ListXmlGet)
    /\ WF_vars(ListIterEntry)
    /\ WF_vars(ListJsonGet)
    /\ WF_vars(PdtLaunch)
    /\ WF_vars(PdtFinish)
    /\ WF_vars(\E server \in RunServers : RunNextPair(server))
    /\ WF_vars(RunReturn)
    /\ \A t \in Tasks :
        /\ WF_vars(DlExists(t))
        /\ SF_vars(DlEnter(t))
        /\ WF_vars(DlAcquire(t))
        /\ SF_vars(AcquireLock(t))
        /\ WF_vars(AcquireRefill(t))
        /\ WF_vars(AcquireCheck(t))
        /\ WF_vars(\E status \in {Raises, 200, 404, 500} : DlGet(t, status))
        /\ WF_vars(DlOpen(t))
        /\ WF_vars(\E body \in {"valid", "invalid", "raises"} : DlWrite(t, body))
        /\ WF_vars(DlValidate(t))
        /\ WF_vars(DlSleepDone(t))

FairSpecRun == SpecRun /\ RunFairness

ResumeNext ==
    \/ IngNext
    \/ PdtAgain

SpecResume == RunInit /\ [][ResumeNext]_vars

BDInit == RLStart /\ LSIdle(NoServer) /\ DLIdle(NoConfig) /\ BDIdle /\ CRIdle /\ ORIdle([k \in OrKeys |-> NoResult]) /\ RunIdle /\ CGIdle

BDNext ==
    \/ \E S \in SUBSET BdUrls : DownloadCollection(S)
    \/ NewProcess
    \/ \E u \in BdUrls : WStart(u)
    \/ \E u \in BdUrls, status \in {Raises, 200, 404, 406} : WGet(u, status)
    \/ \E u \in BdUrls, status \in {Raises, 200, 406} : WGetWildcard(u, status)
    \/ \E u \in BdUrls, body \in Bodies, ok \in BOOLEAN : WWrite(u, body, ok)
    \/ \E u \in BdUrls : WAddBytes(u)
    \/ \E u \in BdUrls : WChecksum(u)
    \/ \E u \in BdUrls : WSleepDone(u)
    \/ \E u \in BdUrls : RecordDownload(u)
    \/ CollectionDone

SpecBD == BDInit /\ [][BDNext]_vars

CRInit == RLStart /\ LSIdle(NoServer) /\ DLIdle(NoConfig) /\ BDIdle /\ CRIdle /\ ORIdle([k \in OrKeys |-> NoResult]) /\ RunIdle /\ CGIdle

CRNext ==
    \/ \E d \in 0..MaxCrawlDepth : CrawlCall(d, FALSE)
    \/ \E answer \in CrAnswers : CrawlEnter(answer)
    \/ CrawlIter

SpecCrawl == CRInit /\ [][CRNext]_vars

\* the crawl over listings that may hold links leading out of the start url
EscapeNext ==
    \/ \E d \in 0..MaxCrawlDepth, out \in BOOLEAN : CrawlCall(d, out)
    \/ \E answer \in CrAnswers : CrawlEnter(answer)
    \/ CrawlIter

SpecEscape == CRInit /\ [][EscapeNext]_vars

ORInit ==
    /\ RLStart /\ LSIdle(NoServer) /\ DLIdle(NoConfig) /\ BDIdle /\ CRIdle
    /\ \E file \in OrFiles : ORIdle(file)
    /\ RunIdle /\ CGIdle

ORNext ==
    \/ OrMain
    \/ OrNextPair
    \/ \E success \in BOOLEAN : OrRunCommand(success)
    \/ OrStore

SpecMain == ORInit /\ [][ORNext]_vars

CGInit == RLStart /\ LSIdle(NoServer) /\ DLIdle(NoConfig) /\ BDIdle /\ CRIdle /\ ORIdle([k \in OrKeys |-> NoResult]) /\ RunIdle /\ CGIdle

CGNext ==
    \/ \E S \in SUBSET BdUrls : Download118thCongress(S)
    \/ \E u \in BdUrls : CgStart(u)
    \/ \E u \in BdUrls, status \in {Raises, 200, 404, 406} : CgGet(u, status)
    \/ \E u \in BdUrls, status \in {Raises, 200, 406} : CgGetWildcard(u, status)
    \/ \E u \in BdUrls, body \in Bodies, ok \in BOOLEAN : CgWrite(u, body, ok)
    \/ \E u \in BdUrls : CgCheck(u)
    \/ \E u \in BdUrls : CgCount(u)
    \/ \E u \in BdUrls : CgCountStore(u)
    \/ Congress118Done

SpecCongress == CGInit /\ [][CGNext]_vars

\* ------------------------------------------------------------------------
\* Claims about the RateLimiter
\* ------------------------------------------------------------------------

\* C1: once the bucket is empty, a further acquire(1) is suspended and then
\* returns after the refill time has passed, without any call of release():
\* every task suspended in acquire(1) eventually leaves the suspension.
C1_WaiterReturnsAfterRefill ==
    \A t \in Tasks : (pc[t] = "await" /\ req[t] = 1) ~> (pc[t] # "await")

\* C2: in every reachable state 0 <= tokens <= capacity, and a task that is at
\* a statement reading or writing tokens holds the limiter's lock.
C2_TokensBoundedUnderLock ==
    /\ 0 <= tokens
    /\ tokens <= Scaled(Capacity)
    /\ \A t \in Tasks : pc[t] \in {"refill", "check"} => lock = t

\* C2 witness: a task is inside the critical section after a refill took
\* place, the bucket is partly drained and another task contends for the lock.
C2_Witness ==
    \E t, u \in Tasks :
        /\ t # u
        /\ lock = t /\ pc[t] = "check"
        /\ pc[u] \in {"want", "woken"}
        /\ updated_at > 0
        /\ tokens > 0 /\ tokens < Scaled(Capacity)

\* C3: waiters are served in arrival order: a task is never granted tokens
\* while a task that was already waiting (for a request the bucket can hold)
\* when it called acquire still waits.
C3_FifoGrant ==
    \A t \in Tasks :
        pc[t] = "granted" => {u \in behind[t] : req[u] <= Capacity} = {}

\* C4: acquire(n) with n > capacity fails fast: the caller is never left
\* suspended on a future for a request that can never be satisfied.
C4_OversizeFailsFast ==
    \A t \in Tasks : req[t] > Capacity => pc[t] # "await"


\* ------------------------------------------------------------------------
\* Claims about GovInfoIngestor.get_document_list
\* ------------------------------------------------------------------------
Range(f) == {f[i] : i \in DOMAIN f}

\* the .xml files a JSON payload declares, at any nesting
RECURSIVE JsonDeclared(_)
JsonDeclared(node) ==
    IF node.k = "file"
    THEN IF IsXml(node.link) THEN {node.link} ELSE {}
    ELSE UNION {JsonDeclared(node.files[i]) : i \in DOMAIN node.files}

\* the XML strategy ended in an exception / the JSON strategy gave nothing
XmlParseRaises(a) == ~a.wellformed \/ \E i \in DOMAIN a.body : a.body[i].k = "badfolder"
JsonFails(j) == j.status # 200 \/ ~j.valid
ListingFails(d) ==
    \/ srv.xml[d].status # 200
    \/ XmlParseRaises(srv.xml[d]) /\ JsonFails(srv.json[d])

\* C6: when the XML listing endpoint of the root answers a non-200 status and
\* the JSON endpoint answers 200 with a valid payload, the JSON endpoint is
\* requested and the result contains every file the payload declares.
C6_JsonFallbackOnXmlStatus ==
    ( /\ result.done
      /\ srv.xml[Root].status \notin {200, Raises}
      /\ srv.json[Root].status = 200 /\ srv.json[Root].valid )
    => /\ <<"json", Root>> \in reqLog
       /\ JsonDeclared(srv.json[Root].data) \subseteq Range(result.files)

\* C7: a directory whose listing fails (non-200 status or an exception on
\* every strategy tried) contributes zero files, so a failing root gives the
\* empty list, and the files listed next to a failing directory are returned.
C7_FailedListingContributesNothing ==
    /\ \A d \in Dirs :
         (contrib[d].done /\ ListingFails(d)) => contrib[d].files = <<>>
    /\ (result.done /\ srv.xml[Root].status = 200 /\ ~XmlParseRaises(srv.xml[Root]))
         => \A i \in DOMAIN srv.xml[Root].body :
              LET e == srv.xml[Root].body[i] IN
              (e.k = "file" /\ IsXml(e.link)) => e.link \in Range(result.files)


\* ------------------------------------------------------------------------
\* Claims about GovInfoIngestor.process_document_type / download_file
\* ------------------------------------------------------------------------

\* C5: after process_document_type returned for a pair with at least one
\* discovered URL, a manifest and a failure log exist in the pair's directory.
C5_ManifestWritten ==
    (phase = "done" /\ documents # <<>>)
    => (disk[ManifestPath] # Absent /\ disk[FailuresPath] # Absent)

\* C10: with validation enabled and a document type that has a schema
\* mapping, a call whose file was rejected by the validation returns False,
\* and rejected content is on disk only while the call that wrote it has not
\* yet validated it: it never remains once that call has returned.
C10_InvalidNeverRemains ==
    (cfg.validate_xml /\ cfg.mapped) =>
        /\ \A t \in Tasks :
             (dpc[t] = "returned" /\ verdict[t] = "invalid") => ret[t] = FALSE
        /\ \A p \in Paths :
             disk[p] = "invalid" =>
                \E t \in Tasks :
                    Active(t) /\ dpc[t] = "validate" /\ OutputPath(UrlOf(t)) = p

\* C10 witness: a downloaded file failed validation, the call has returned
\* False and the destination path holds no file.
C10_Witness ==
    \E t \in Tasks :
        /\ cfg.validate_xml /\ cfg.mapped
        /\ dpc[t] = "returned" /\ verdict[t] = "invalid" /\ ret[t] = FALSE
        /\ disk[OutputPath(UrlOf(t))] = Absent


\* ------------------------------------------------------------------------
\* Claims about GovInfoBulkDownloader
\* ------------------------------------------------------------------------

\* C8: once a URL has been recorded in the tracking database with status
\* COMPLETED, no later step (of this or a later download_collection call, in
\* this or a later process) issues a GET request for that URL.
C8_CompletedNeverFetchedAgain ==
    [][\A u \in BdUrls : u \in everCompleted => gets'[u] <= gets[u]]_vars

\* C9: _download_file for a URL that is in the downloaded-files set returns
\* SKIPPED / "Already downloaded" and changes neither the request count, the
\* tracking sets, the files on disk nor the byte counter (so a further call
\* meets the same state and gives the same result).
C9_SkipLeavesStateUnchanged ==
    [][\A u \in BdUrls :
          (wpc[u] = "queued" /\ wpc'[u] # "queued" /\ u \in downloaded_files)
          => /\ wpc'[u] = "returned"
             /\ wres'[u].status = "SKIPPED"
             /\ wres'[u].error = "Already downloaded"
             /\ UNCHANGED <<gets, downloaded_files, failed_urls, bdDisk, total_bytes>>]_vars

\* C9 witness: a call for a URL of the tracking set has returned the skip
\* while the file of the earlier download is on disk.
C9_Witness ==
    \E u \in BdUrls :
        /\ wpc[u] = "returned"
        /\ wres[u].status = "SKIPPED" /\ wres[u].error = "Already downloaded"
        /\ u \in downloaded_files
        /\ gets[u] = 0
        /\ bdDisk[GetLocalPath(u)] \in Bodies

\* C11: the outcome returned by _download_file has status COMPLETED, FAILED
\* or SKIPPED, never PENDING or DOWNLOADING, and so every url whose outcome
\* download_collection has processed is counted in exactly one of the three
\* counters.
C11_OutcomeIsFinal ==
    /\ \A u \in BdUrls :
          wpc[u] \in {"returned", "recorded"} =>
              wres[u].status \in {"COMPLETED", "FAILED", "SKIPPED"}
    /\ bdPhase = "running" =>
          stats.successful_downloads + stats.failed_downloads + stats.skipped_files
              = Cardinality({u \in BdUrls : wpc[u] = "recorded"})

\* C18: when the request with the default Accept header was answered 406 and
\* the retry with `Accept: */*` was answered 200, that response is the one
\* being written to the destination file, and the call returns COMPLETED.
C18_WildcardBodyIsKept ==
    \A u \in BdUrls :
        last[u] = Answer(TRUE, 200) =>
            /\ wpc[u] \in {"write", "checksum", "returned", "recorded", "none"}
            /\ wpc[u] \in {"returned", "recorded", "none"} => wres[u].status = "COMPLETED"

\* C19: one call of _download_file issues at most retry_count GET requests
\* for its url, whatever the server answers.
C19_AtMostRetryCountGets ==
    \A u \in BdUrls : gets[u] <= RetryCount

\* C20: once a GET was answered 404 the call has returned FAILED: no further
\* GET and no backoff wait follow.
C20_NotFoundFailsAtOnce ==
    \A u \in BdUrls :
        last[u] = Answer(FALSE, 404) =>
            /\ wpc[u] \in {"returned", "recorded", "none"}
            /\ wres[u].status = "FAILED"

\* ------------------------------------------------------------------------
\* Claims about the crawler
\* ------------------------------------------------------------------------
\* the wanted files of the directories of depth k .. d, in listing order
RECURSIVE CrWithin(_, _)
CrWithin(k, d) ==
    <<CrFile(k, "xml")>>
        \o (IF k + 1 <= d THEN <<CrFile(k + 1, "xsl")>> ELSE <<>>)
        \o (IF k + 1 <= d /\ k < TreeDepth THEN CrWithin(k + 1, d) ELSE <<>>)

\* C15: with max_depth = d (the start url being level 0 and each recursive
\* call one level deeper) no listing is requested for a directory deeper
\* than d, only files of the levels 0 .. d are returned, and when every
\* listing was served these are all the wanted files of those levels; the
\* deeper files are left out and the call returns normally.
C15_DepthLimit ==
    /\ \A r \in crReqs : r[1] <= crMax
    /\ crOut.done =>
          /\ \A i \in DOMAIN crOut.files : crOut.files[i].depth <= crMax
          /\ ~crFailed => crOut.files = CrWithin(0, crMax)

\* C15 witness: a crawl with max_depth = 2 over the deeper tree has returned
\* the files of the levels 0, 1 and 2 after every listing was served.
C15_Witness ==
    /\ crOut.done
    /\ crMax = 2
    /\ crMax < TreeDepth
    /\ ~crFailed
    /\ crReqs = {<<0, FALSE, CrStart>>, <<1, TRUE, CrStart>>, <<1, FALSE, CrStart>>,
                  <<2, TRUE, CrStart>>, <<2, FALSE, CrStart>>}
    /\ Len(crOut.files) = 5

\* ------------------------------------------------------------------------
\* Claims about run_comprehensive_ingestion.main
\* ------------------------------------------------------------------------

C14_NoDuplicateUrls ==
    /\ result.done =>
          \A i, j \in DOMAIN result.files : i # j => result.files[i] # result.files[j]
    /\ \A t, u \in Tasks :
          (t # u /\ Active(t) /\ Active(u)) => UrlOf(t) # UrlOf(u)

\* C16: the local path keeps the nested segments of the URL, so the download
\* tasks of two distinct URLs of a pair never have the same output path.
C16_DistinctUrlsDistinctPaths ==
    \A t, u \in Tasks :
        (Active(t) /\ Active(u) /\ UrlOf(t) # UrlOf(u)) =>
            OutputPath(UrlOf(t)) # OutputPath(UrlOf(u))

\* ------------------------------------------------------------------------
\* Claims about the concurrency limits of download_file
\* ------------------------------------------------------------------------
\* the calls that are inside `async with self.semaphore:`
Holding == {t \in Tasks : dpc[t] \in {"acquire", "sleep", "open", "write", "validate"}}

\* C12: at most `workers` download_file calls are inside the semaphore block
\* (the free slots and the calls inside always add up to `workers`), and a
\* step that issues a file GET is taken by a call that is inside the block
\* and consumes the token that the rate limiter granted it for this attempt.
C12_SlotAndTokenBeforeGet ==
    [][/\ Cardinality(Holding') <= Workers
       /\ sem' = Workers - Cardinality(Holding')
       /\ \A t \in Tasks :
             fetched'[t] # fetched[t] =>
                 /\ fetched'[t] = fetched[t] + 1
                 /\ t \in Holding
                 /\ pc[t] = "granted" /\ pc'[t] # "granted"
       /\ \A t \in Tasks : pc'[t] = "granted" => t \in Holding']_vars

\* C12 witness: `workers` calls are inside the block, one of them has issued
\* a GET and asks for the token of its next attempt, another call waits for
\* a slot.
C12_Witness ==
    /\ Cardinality(Holding) = Workers
    /\ sem = 0
    /\ \E t \in Holding : fetched[t] > 0 /\ attempt[t] > 0 /\ pc[t] \in {"want", "refill", "check"}
    /\ \E u \in Tasks : dpc[u] = "sem"

\* ------------------------------------------------------------------------
\* Claims about GovInfoIngestor.run
\* ------------------------------------------------------------------------

\* C13: every requested pair eventually reaches its final state and run
\* returns a count for each pair, whatever the listings and the downloads
\* of the pairs do.
C13_RunFinalizesEveryPair ==
    <>(phase = "returned" /\ Len(counts) = NumRunPairs)

\* ------------------------------------------------------------------------
\* Claims about the retries of download_file
\* ------------------------------------------------------------------------

\* C21: no retry without the backoff wait: download_file passes from a failed
\* attempt to the next one (the loop variable advances) only out of the
\* sleep that follows the failure.
C21_RetryOnlyAfterWait ==
    [][\A t \in Tasks : attempt'[t] > attempt[t] => dpc[t] = "sleep"]_vars

\* C23: a file counts as already downloaded only after its write completed:
\* a call that returned True through `if output_path.exists()` (without any
\* request) did not take a file whose write was interrupted for a download.
C23_PartialFileNotTakenAsDone ==
    \A t \in Tasks :
        (Active(t) /\ dpc[t] = "returned" /\ ret[t] /\ fetched[t] = 0) =>
            disk[OutputPath(UrlOf(t))] # Partial

\* ------------------------------------------------------------------------
\* Claims about the checksum deduplication of GovInfoBulkDownloader
\* ------------------------------------------------------------------------

\* C22: a worker removes the file it just wrote and returns SKIPPED /
\* "Duplicate file detected" only when the checksum of the file is recorded
\* in the tracking database for a different url.
C22_DuplicateNeedsOtherUrl ==
    [][\A u \in BdUrls :
          (wpc[u] = "checksum" /\ wpc'[u] = "returned" /\ wres'[u].status = "SKIPPED") =>
              \E v \in BdUrls \ {u} : db[v].checksum = wres'[u].checksum]_vars

\* C29: of two distinct urls with identical content that are downloaded in
\* one download_collection call at most one ends COMPLETED.
C29_OneCopyCompleted ==
    \A u, v \in BdUrls :
        (/\ u # v
         /\ wpc[u] \in {"returned", "recorded"} /\ wres[u].status = "COMPLETED"
         /\ wpc[v] \in {"returned", "recorded"} /\ wres[v].status = "COMPLETED")
        => wres[u].checksum # wres[v].checksum

\* the bytes of the bodies that the workers of the current call wrote
RECURSIVE WrittenBytes(_)
WrittenBytes(S) ==
    IF S = {} THEN 0
    ELSE LET u == CHOOSE v \in S : TRUE IN
         (IF wres[u].checksum = NoChecksum THEN 0 ELSE Size(wres[u].checksum[2]))
             + WrittenBytes(S \ {u})

\* C24: no update of the byte counter is lost: when every worker of a
\* download_collection call has returned, total_bytes is the sum of the sizes
\* of the bodies the workers wrote, under every interleaving.
C24_NoLostByteUpdate ==
    (bdPhase = "running" /\ \A u \in BdUrls : wpc[u] \in {"none", "returned", "recorded"})
        => total_bytes = WrittenBytes(BdUrls)

\* C27: the rate bound of the token bucket: in every time window the tokens
\* granted are at most capacity + rate x the length of the window, also after
\* the limiter sat idle with a full bucket.  `excess` is the largest value of
\* "granted in the window - rate x length" over the windows that end now.
C27_RateBound == excess <= Scaled(Capacity)

\* C28: a release() that runs while some task is still waiting does not raise
\* and wakes the earliest task that is still waiting, also when tasks that
\* waited before it were cancelled.
C28_ReleaseWakesEarliestLive ==
    [][\A t \in Tasks :
          (pc[t] = "release" /\ pc'[t] # "release" /\ LiveWaiters # <<>>) =>
              (pc'[t] # "raised" /\ pc'[Head(LiveWaiters).owner] = "woken")]_vars

\* C25: the crawl started at the url R of a collection requests listings only
\* of R and of directories beneath R, whatever links the listings hold.
C25_CrawlStaysBeneathStart == \A r \in crReqs : Beneath(r[3])

C30_CountersSumToTotal ==
    (cgRuns > 0 /\ cgPhase = "idle") =>
        cgStats.successful_downloads + cgStats.failed_downloads + cgStats.skipped_files
            = cgTotal

====
